---------------------------- MODULE Spec2Model ----------------------------
(***************************************************************************)
(* The filter / aggregate / derive pipelines of dashboard.py: the bus      *)
(* routes view, the train status view and the train ridership view.        *)
(*                                                                         *)
(* City, station and status names are numbered in their collation order    *)
(* (pandas sorts group keys; 1 < 2 stands for "A" < "B").  A table is a    *)
(* sequence of records, one per row, in file order.  Every view is a       *)
(* script run (a "pass"): the widgets are read, then the pipeline runs.    *)
(* The values the widgets return are inputs of the pipeline and are drawn  *)
(* from small sets, values that do not occur in the table included.        *)
(***************************************************************************)
EXTENDS Integers, Sequences, FiniteSets

VARIABLES
    graph_option,     \* main: the sidebar's "Choose a Graph"
    bus_cache,        \* st.cache_data entry of load_bus_data
    train_cache,      \* st.cache_data entry of load_train_data
    pc,               \* position of the running / last pass
    selected_years,   \* bus view: st.multiselect
    selected_origin,  \* bus view: st.selectbox
    df_city_grouped,  \* bus view: the grouped table
    df_top15,         \* bus view: the 15 largest routes (+ normalized_width)
    year_filter,      \* status view: st.selectbox
    month_range,      \* status view: st.slider, <<lo, hi>>
    station_filter,   \* status view: st.multiselect
    grouped_data,     \* status view: the grouped table
    station_options,  \* ridership view: the options of the station selectbox
    selected_city,    \* ridership view: st.selectbox
    year_range,       \* ridership view: st.slider, <<lo, hi>>
    trips_per_month,  \* ridership view: the monthly series
    annotations       \* ridership view: the ax.annotate calls made

busVars == <<selected_years, selected_origin, df_city_grouped, df_top15>>
statusVars == <<year_filter, month_range, station_filter, grouped_data>>
ridershipVars == <<station_options, selected_city, year_range, trips_per_month, annotations>>
vars == <<graph_option, bus_cache, train_cache, pc, busVars, statusVars, ridershipVars>>

---------------------------------------------------------------------------
(* Bounds of the model *)

MaxRows == 2        \* free rows of a loaded table
MaxTrips == 2       \* largest trips_count of a free row
BulkRoutes == 14    \* routes of the fixed block of a large bus table
MaxCount == 1       \* largest status_count of a free row

(* Program constants *)

TopN == 15          \* nlargest(15, "trips_count")
WidthScale == 6     \* ... / max() * 6

---------------------------------------------------------------------------
(* Generic helpers: pandas semantics *)

\* (mutant) the value of one contributing row instead of the sum
SumIdxFirst(vals, S) ==
    IF S = {} THEN 0 ELSE vals[CHOOSE x \in S : \A y \in S : x <= y]

\* Sum of vals[i] over the indexes in S.
RECURSIVE SumIdx(_, _)
SumIdx(vals, S) ==
    IF S = {} THEN 0
    ELSE LET i == CHOOSE x \in S : TRUE
         IN  vals[i] + SumIdx(vals, S \ {i})

\* Lexicographic order on tuples of equal length (the order of a sorted
\* groupby on several keys).
LexLess(a, b) ==
    \E i \in DOMAIN a :
        /\ a[i] < b[i]
        /\ \A j \in 1..(i - 1) : a[j] = b[j]

\* The keys of S in ascending order.
RECURSIVE SortKeys(_)
SortKeys(S) ==
    IF S = {} THEN <<>>
    ELSE LET m == CHOOSE x \in S : \A y \in S \ {x} : LexLess(x, y)
         IN  <<m>> \o SortKeys(S \ {m})

\* (mutant) min() instead of max()
SeqMin(vals) ==
    CHOOSE m \in {vals[i] : i \in DOMAIN vals} :
        \A i \in DOMAIN vals : m <= vals[i]

\* Largest value of a non-empty sequence of numbers.
SeqMax(vals) ==
    CHOOSE m \in {vals[i] : i \in DOMAIN vals} :
        \A i \in DOMAIN vals : vals[i] <= m

\* s without its i-th element.
RemoveAt(s, i) == SubSeq(s, 1, i - 1) \o SubSeq(s, i + 1, Len(s))

---------------------------------------------------------------------------
(* Bus routes view *)

BusKey(r) ==
    <<r.origin_yishuv_nm, r.destination_yishuv_nm,
      r.lat_origin, r.lon_origin, r.lat_dest, r.lon_dest>>

\* df.groupby([...6 keys...], as_index=False)["trips_count"].sum():
\* one row per key present, keys sorted ascending, trips_count summed.
GroupRoutes(df) ==
    LET keys == SortKeys({BusKey(df[i]) : i \in DOMAIN df})
        vals == [i \in DOMAIN df |-> df[i].trips_count]
    IN  [j \in 1..Len(keys) |->
            [origin_yishuv_nm      |-> keys[j][1],
             destination_yishuv_nm |-> keys[j][2],
             lat_origin            |-> keys[j][3],
             lon_origin            |-> keys[j][4],
             lat_dest              |-> keys[j][5],
             lon_dest              |-> keys[j][6],
             trips_count |->
                SumIdx(vals, {i \in DOMAIN df : BusKey(df[i]) = keys[j]})]]

\* (mutant) nsmallest: the smallest trips_count first
FirstSmallest(df) ==
    CHOOSE i \in DOMAIN df :
        /\ \A k \in DOMAIN df : df[i].trips_count <= df[k].trips_count
        /\ \A k \in 1..(i - 1) : df[i].trips_count < df[k].trips_count

\* (mutant) keep="last": the last row of the frame on a tie
LastLargest(df) ==
    CHOOSE i \in DOMAIN df :
        /\ \A k \in DOMAIN df : df[k].trips_count <= df[i].trips_count
        /\ \A k \in (i + 1)..Len(df) : df[k].trips_count < df[i].trips_count

\* Index of the row nlargest takes next: the largest trips_count, the first
\* such row of the frame on a tie (keep="first").
FirstLargest(df) ==
    CHOOSE i \in DOMAIN df :
        /\ \A k \in DOMAIN df : df[k].trips_count <= df[i].trips_count
        /\ \A k \in 1..(i - 1) : df[k].trips_count < df[i].trips_count

\* df.nlargest(n, "trips_count")
RECURSIVE NLargest(_, _)
NLargest(n, df) ==
    IF n = 0 \/ df = <<>> THEN <<>>
    ELSE LET i == FirstLargest(df)
         IN  <<df[i]>> \o NLargest(n - 1, RemoveAt(df, i))

\* A float64 result: a rational num/den, or NaN.
NaN == [nan |-> TRUE, num |-> 0, den |-> 1]
Rat(n, d) == [nan |-> FALSE, num |-> n, den |-> d]

\* a / b * 6 on a column of non-negative integers a with 0 <= a <= b:
\* numpy's true division gives NaN for 0 / 0 and raises nothing.
NormalizedWidth(a, b) ==
    IF b = 0 THEN NaN ELSE Rat(a * WidthScale, b)

\* df_top15["normalized_width"] = trips_count / trips_count.max() * 6
WithNormalizedWidth(df) ==
    LET mx == SeqMax([i \in DOMAIN df |-> df[i].trips_count])
    IN  [i \in DOMAIN df |->
            [origin_yishuv_nm      |-> df[i].origin_yishuv_nm,
             destination_yishuv_nm |-> df[i].destination_yishuv_nm,
             lat_origin            |-> df[i].lat_origin,
             lon_origin            |-> df[i].lon_origin,
             lat_dest              |-> df[i].lat_dest,
             lon_dest              |-> df[i].lon_dest,
             trips_count           |-> df[i].trips_count,
             normalized_width      |-> NormalizedWidth(df[i].trips_count, mx)]]

\* df[df["year"].isin(selected_years)] and then
\* df_filtered[df_filtered["origin_yishuv_nm"] == selected_origin]
FilterYears(df, years) == SelectSeq(df, LAMBDA r : r.year \in years)

\* (mutant) != for ==
FilterOriginOthers(df, origin) == SelectSeq(df, LAMBDA r : r.origin_yishuv_nm # origin)

FilterOrigin(df, origin) == SelectSeq(df, LAMBDA r : r.origin_yishuv_nm = origin)

\* The tables load_bus_data may return: up to MaxRows free rows, alone or
\* followed by a block of BulkRoutes routes of one trip each from city 1.
BusYears == {2022, 2023}
BusShapes ==
    { <<2022, 1, 1, 1>>, <<2022, 1, 1, 2>>, <<2022, 1, 20, 1>>,
      <<2023, 1, 2, 1>>, <<2022, 2, 1, 1>> }
BusRow(y, o, d, ld, t) ==
    [year |-> y, origin_yishuv_nm |-> o, destination_yishuv_nm |-> d,
     lat_origin |-> o, lon_origin |-> o, lat_dest |-> ld, lon_dest |-> d,
     trips_count |-> t]
BusRows == { BusRow(s[1], s[2], s[3], s[4], t) : s \in BusShapes, t \in 0..MaxTrips }
BulkBlock == [i \in 1..BulkRoutes |-> BusRow(2022, 1, i + 1, 1, 1)]
FreeTables(Rows) == UNION { [1..n -> Rows] : n \in 0..MaxRows }
BusTables == FreeTables(BusRows) \cup { t \o BulkBlock : t \in FreeTables(BusRows) }

YearChoices == SUBSET BusYears
OriginChoices == {1, 2, 3}
NoOrigin == 0

NotLoaded == [loaded |-> FALSE, df |-> <<>>]

BusRestart ==
    /\ graph_option = "Bus Routes Connectivity"
    /\ pc \in {"idle", "stopped", "nodata", "rendered"}

\* load_bus_data (cached), the two widgets, the st.stop() on no year.
BusFilters ==
    /\ BusRestart
    /\ IF bus_cache.loaded
          THEN UNCHANGED bus_cache
          ELSE \E t \in BusTables : bus_cache' = [loaded |-> TRUE, df |-> t]
    /\ \E years \in YearChoices, origin \in OriginChoices :
          /\ selected_years' = years
          /\ IF years = {}
                THEN selected_origin' = NoOrigin /\ pc' = "stopped"
                ELSE selected_origin' = origin /\ pc' = "filtered"
    /\ df_city_grouped' = <<>>
    /\ df_top15' = <<>>
    /\ UNCHANGED <<graph_option, train_cache, statusVars, ridershipVars>>

\* (mutant) the pass without its "if df_top15.empty" return
BusTopRoutesUnchecked ==
    /\ pc = "filtered"
    /\ LET df_filtered == FilterYears(bus_cache.df, selected_years)
           df_city == FilterOrigin(df_filtered, selected_origin)
           grouped == GroupRoutes(df_city)
       IN  /\ df_city_grouped' = grouped
           /\ df_top15' = NLargest(TopN, grouped)
           /\ pc' = "top15"
    /\ UNCHANGED <<graph_option, bus_cache, train_cache, selected_years, selected_origin,
                   statusVars, ridershipVars>>

\* Filter, group, take the 15 largest; the "No data available" return.
BusTopRoutes ==
    /\ pc = "filtered"
    /\ LET df_filtered == FilterYears(bus_cache.df, selected_years)
           df_city == FilterOrigin(df_filtered, selected_origin)
           grouped == GroupRoutes(df_city)
           top == NLargest(TopN, grouped)
       IN  /\ df_city_grouped' = grouped
           /\ df_top15' = top
           /\ pc' = IF top = <<>> THEN "nodata" ELSE "top15"
    /\ UNCHANGED <<graph_option, bus_cache, train_cache, selected_years, selected_origin,
                   statusVars, ridershipVars>>

\* (mutant) the column written through to the loaded frame
LoadedWithWidth(df, top) ==
    [i \in DOMAIN df |->
        [year |-> df[i].year, origin_yishuv_nm |-> df[i].origin_yishuv_nm,
         destination_yishuv_nm |-> df[i].destination_yishuv_nm,
         lat_origin |-> df[i].lat_origin, lon_origin |-> df[i].lon_origin,
         lat_dest |-> df[i].lat_dest, lon_dest |-> df[i].lon_dest,
         trips_count |-> df[i].trips_count,
         normalized_width |-> NormalizedWidth(df[i].trips_count, 1)]]

\* The loaded frame df after df_top15["normalized_width"] = ...: df_top15 is
\* the frame nlargest built, the assignment adds nothing to df.
LoadedAfterWidth(df, top) == df

\* The normalized_width column and the rendering of the map.
BusNormalize ==
    /\ pc = "top15"
    /\ df_top15' = WithNormalizedWidth(df_top15)
    /\ bus_cache' = [bus_cache EXCEPT !.df = LoadedAfterWidth(bus_cache.df, df_top15)]
    /\ pc' = "rendered"
    /\ UNCHANGED <<graph_option, train_cache, selected_years, selected_origin,
                   df_city_grouped, statusVars, ridershipVars>>


---------------------------------------------------------------------------
(* Train status view *)

MaxStations == 20   \* "You can select a maximum of 20 stations."
NoYear == 0         \* no year chosen: falsy in "if year_filter and station_filter"

\* A row of the train table.
TrainRow(y, m, st, ss, c) ==
    [shana |-> y, hodesh |-> m, train_station_nm |-> st,
     station_status_nm |-> ss, status_count |-> c]

\* The tables load_train_data may return: up to MaxRows free rows, alone or
\* followed by a fixed block of three rows that are not in date order.
TrainShapes ==
    { <<2020, 3, 1, 1>>, <<2020, 3, 1, 2>>, <<2020, 12, 2, 1>>,
      <<2024, 5, 1, 1>>, <<2024, 10, 1, 1>>, <<2021, 1, 2, 2>> }
TrainRows ==
    { TrainRow(s[1], s[2], s[3], s[4], c) : s \in TrainShapes, c \in 0..MaxCount }
TrainBlock ==
    << TrainRow(2023, 10, 1, 1, 1), TrainRow(2020, 12, 2, 2, 1),
       TrainRow(2020, 3, 1, 1, 1) >>
TrainTables ==
    FreeTables(TrainRows) \cup { t \o TrainBlock : t \in FreeTables(TrainRows) }

\* cached load_train_data
LoadTrain ==
    IF train_cache.loaded
       THEN UNCHANGED train_cache
       ELSE \E t \in TrainTables : train_cache' = [loaded |-> TRUE, df |-> t]

\* (mutant) the station predicate left out
FilterStatusAnyStation(df, year, stations, months) ==
    SelectSeq(df, LAMBDA r :
        /\ r.shana = year
        /\ r.hodesh >= months[1]
        /\ r.hodesh <= months[2])

\* df[(shana == year_filter) & station.isin(station_filter)
\*    & (hodesh >= month_range[0]) & (hodesh <= month_range[1])]
FilterStatus(df, year, stations, months) ==
    SelectSeq(df, LAMBDA r :
        /\ r.shana = year
        /\ r.train_station_nm \in stations
        /\ r.hodesh >= months[1]
        /\ r.hodesh <= months[2])

StatusKey(r) == <<r.train_station_nm, r.station_status_nm>>

\* filtered_df.groupby(['train_station_nm', 'station_status_nm'],
\*                     as_index=False)['status_count'].sum()
GroupStatus(df) ==
    LET keys == SortKeys({StatusKey(df[i]) : i \in DOMAIN df})
        vals == [i \in DOMAIN df |-> df[i].status_count]
    IN  [j \in 1..Len(keys) |->
            [train_station_nm  |-> keys[j][1],
             station_status_nm |-> keys[j][2],
             status_count |->
                SumIdx(vals, {i \in DOMAIN df : StatusKey(df[i]) = keys[j]})]]

StatusYearChoices == {NoYear, 2020, 2024}
MonthChoices == {3, 10}
StationChoices == { {}, {1}, {1, 2}, {3} }

StatusRestart ==
    /\ graph_option = "Train Status Analysis"
    /\ pc \in {"idle", "stopped", "info", "charted"}

\* load_train_data (cached), the three widgets, the st.stop() on more than
\* 20 stations.
StatusFilters ==
    /\ StatusRestart
    /\ LoadTrain
    /\ \E y \in StatusYearChoices, lo \in MonthChoices, hi \in MonthChoices,
          sts \in StationChoices :
          /\ year_filter' = y
          /\ month_range' = <<lo, hi>>
          /\ station_filter' = sts
          /\ pc' = IF Cardinality(sts) > MaxStations THEN "stopped" ELSE "selected"
    /\ grouped_data' = <<>>
    /\ UNCHANGED <<graph_option, bus_cache, busVars, ridershipVars>>

\* "if year_filter and station_filter": filter, group and chart; else st.info.
StatusChart ==
    /\ pc = "selected"
    /\ IF year_filter # NoYear /\ station_filter # {}
          THEN /\ grouped_data' =
                    GroupStatus(FilterStatus(train_cache.df, year_filter,
                                             station_filter, month_range))
               /\ pc' = "charted"
          ELSE /\ grouped_data' = <<>>
               /\ pc' = "info"
    /\ UNCHANGED <<graph_option, bus_cache, train_cache, year_filter, month_range,
                   station_filter, busVars, ridershipVars>>

---------------------------------------------------------------------------
(* Train ridership view *)

AllStations == 0    \* the "All" entry of the station selectbox

Digit == <<"0", "1", "2", "3", "4", "5", "6", "7", "8", "9">>

\* str(n) of a non-negative integer, as a sequence of characters
RECURSIVE ToStr(_)
ToStr(n) ==
    IF n < 10 THEN <<Digit[n + 1]>>
    ELSE ToStr(n \div 10) \o <<Digit[(n % 10) + 1]>>

\* str.zfill(w)
RECURSIVE ZFill(_, _)
ZFill(s, w) == IF Len(s) >= w THEN s ELSE ZFill(<<"0">> \o s, w)

\* shana.astype(str) + '-' + hodesh.astype(str).str.zfill(2)
YearMonth(shana, hodesh) == ToStr(shana) \o <<"-">> \o ZFill(ToStr(hodesh), 2)

\* (mutant) no cutoff
DropNothing(df) == df

\* data[(shana < 2024) | ((shana == 2024) & (hodesh <= 9))]
CutoffYear == 2024
CutoffMonth == 9
DropAfterCutoff(df) ==
    SelectSeq(df, LAMBDA r :
        \/ r.shana < CutoffYear
        \/ (r.shana = CutoffYear /\ r.hodesh <= CutoffMonth))

\* (mutant) the station choice ignored
FilterCityIgnored(df, city) == df

\* data[data['train_station_nm'] == selected_city] unless "All"
FilterCity(df, city) ==
    IF city # AllStations
       THEN SelectSeq(df, LAMBDA r : r.train_station_nm = city)
       ELSE df

\* filtered_data[(shana >= year_range[0]) & (shana <= year_range[1])]
FilterYearRange(df, years) ==
    SelectSeq(df, LAMBDA r : r.shana >= years[1] /\ r.shana <= years[2])

PeriodKey(r) == <<r.shana, r.hodesh>>

\* filtered_data.groupby(['shana', 'hodesh'])['status_count'].sum().reset_index()
GroupPeriods(df) ==
    LET keys == SortKeys({PeriodKey(df[i]) : i \in DOMAIN df})
        vals == [i \in DOMAIN df |-> df[i].status_count]
    IN  [j \in 1..Len(keys) |->
            [index  |-> j - 1,
             shana  |-> keys[j][1],
             hodesh |-> keys[j][2],
             status_count |->
                SumIdx(vals, {i \in DOMAIN df : PeriodKey(df[i]) = keys[j]})]]

\* trips_per_month['year_month'] = ...
WithYearMonth(df) ==
    [i \in DOMAIN df |->
        [index        |-> df[i].index,
         shana        |-> df[i].shana,
         hodesh       |-> df[i].hodesh,
         status_count |-> df[i].status_count,
         year_month   |-> YearMonth(df[i].shana, df[i].hodesh)]]

\* (mutant) r put in front of the frame
InsertFront(s, r) == <<r>> \o s

\* r put into the sorted frame s behind every row that is not later than r
InsertSorted(s, r) ==
    LET n == Cardinality({i \in DOMAIN s : ~LexLess(PeriodKey(r), PeriodKey(s[i]))})
    IN  SubSeq(s, 1, n) \o <<r>> \o SubSeq(s, n + 1, Len(s))

\* sort_values(by=['shana', 'hodesh'])
RECURSIVE SortValues(_)
SortValues(df) ==
    IF df = <<>> THEN <<>>
    ELSE InsertSorted(SortValues(SubSeq(df, 1, Len(df) - 1)), df[Len(df)])

\* reset_index(drop=True)
ResetIndex(df) == [i \in DOMAIN df |-> [df[i] EXCEPT !.index = i - 1]]

\* annotation_mapping: the "date" and "text" of the four events
annotation_mapping ==
    << [date |-> <<"2", "0", "2", "0", "-", "0", "3">>, text |-> "Corona"],
       [date |-> <<"2", "0", "2", "0", "-", "1", "2">>, text |-> "Corona 2"],
       [date |-> <<"2", "0", "2", "3", "-", "1", "0">>, text |-> "War"],
       [date |-> <<"2", "0", "2", "4", "-", "0", "5">>, text |-> "Repair Work"] >>

\* (mutant) the 1-based position of the hit instead of its index label
AnnotateAtPosition(df, ann) ==
    LET hits == {i \in DOMAIN df : df[i].year_month = ann.date}
    IN  IF hits = {} THEN <<>>
        ELSE LET first == CHOOSE i \in hits : \A k \in hits : i <= k
             IN  << [text |-> ann.text, x |-> first, y |-> df[first].status_count] >>

\* The annotate call of one event on the series df, if any:
\* "if date in year_month.values: x_idx = df[df.year_month == date].index[0];
\*  y_value = df.loc[x_idx, 'status_count']"
Annotate(df, ann) ==
    LET hits == {i \in DOMAIN df : df[i].year_month = ann.date}
    IN  IF hits = {} THEN <<>>
        ELSE LET first == CHOOSE i \in hits : \A k \in hits : i <= k
                 x_idx == df[first].index
                 row   == CHOOSE i \in DOMAIN df : df[i].index = x_idx
             IN  << [text |-> ann.text, x |-> x_idx, y |-> df[row].status_count] >>

RECURSIVE EventAnnotations(_, _)
EventAnnotations(df, anns) ==
    IF anns = <<>> THEN <<>>
    ELSE Annotate(df, Head(anns)) \o EventAnnotations(df, Tail(anns))

\* Series.unique(): the values in order of first appearance
RECURSIVE Unique(_)
Unique(s) ==
    IF s = <<>> THEN <<>>
    ELSE LET u == Unique(SubSeq(s, 1, Len(s) - 1))
         IN  IF \E i \in DOMAIN u : u[i] = s[Len(s)] THEN u ELSE Append(u, s[Len(s)])

\* ["All"] + data['train_station_nm'].unique().tolist(), data being the
\* rows up to the cutoff
StationOptions(data) ==
    <<AllStations>> \o Unique([i \in DOMAIN data |-> data[i].train_station_nm])

CityChoices == {AllStations, 1, 3}
YearRangeChoices == {2020, 2024}
NoRange == <<0, 0>>

RidershipRestart ==
    /\ graph_option = "Train Ridership Over Time"
    /\ pc \in {"idle", "plotted"}

\* load_train_data (cached) and the two widgets
RidershipFilters ==
    /\ RidershipRestart
    /\ LoadTrain
    /\ \E city \in CityChoices, lo \in YearRangeChoices, hi \in YearRangeChoices :
          /\ selected_city' = city
          /\ year_range' = <<lo, hi>>
    /\ station_options' = StationOptions(DropAfterCutoff(train_cache'.df))
    /\ trips_per_month' = <<>>
    /\ annotations' = <<>>
    /\ pc' = "chosen"
    /\ UNCHANGED <<graph_option, bus_cache, busVars, statusVars>>

\* (mutant) the cutoff applied to the loaded frame in place
LoadedCutInPlace(df) == DropAfterCutoff(df)

\* The loaded frame after the pipeline: "data = data[...]" binds the name to
\* a new frame, the filters work on copies and year_month is a column of
\* trips_per_month; the loaded frame keeps its rows and columns.
LoadedAfterSeries(df) == df

\* The cutoff, the two filters, the monthly sums, the period key, the sort.
RidershipSeries ==
    /\ pc = "chosen"
    /\ LET data == DropAfterCutoff(train_cache.df)
           filtered_data == FilterYearRange(FilterCity(data, selected_city), year_range)
       IN  trips_per_month' =
              ResetIndex(SortValues(WithYearMonth(GroupPeriods(filtered_data))))
    /\ train_cache' = [train_cache EXCEPT !.df = LoadedAfterSeries(train_cache.df)]
    /\ pc' = "series"
    /\ UNCHANGED <<graph_option, bus_cache, station_options, selected_city, year_range,
                   annotations, busVars, statusVars>>

\* The line plot and the event annotations.
RidershipPlot ==
    /\ pc = "series"
    /\ annotations' = EventAnnotations(trips_per_month, annotation_mapping)
    /\ pc' = "plotted"
    /\ UNCHANGED <<graph_option, bus_cache, train_cache, station_options, selected_city,
                   year_range, trips_per_month, busVars, statusVars>>

---------------------------------------------------------------------------
(* The application *)

GraphOptions ==
    { "Introduction", "Bus Routes Connectivity", "Train Status Analysis",
      "Train Ridership Over Time" }

\* One behaviour is one session on one page of the sidebar.
Init ==
    /\ graph_option \in GraphOptions
    /\ bus_cache = NotLoaded
    /\ train_cache = NotLoaded
    /\ pc = "idle"
    /\ selected_years = {}
    /\ selected_origin = NoOrigin
    /\ df_city_grouped = <<>>
    /\ df_top15 = <<>>
    /\ year_filter = NoYear
    /\ month_range = NoRange
    /\ station_filter = {}
    /\ grouped_data = <<>>
    /\ station_options = <<>>
    /\ selected_city = AllStations
    /\ year_range = NoRange
    /\ trips_per_month = <<>>
    /\ annotations = <<>>

Next ==
    \/ BusFilters
    \/ BusTopRoutes
    \/ BusNormalize
    \/ StatusFilters
    \/ StatusChart
    \/ RidershipFilters
    \/ RidershipSeries
    \/ RidershipPlot

Spec == Init /\ [][Next]_vars

---------------------------------------------------------------------------
(* Properties of the bus routes view *)

\* Sum of a sequence of numbers.
RECURSIVE SeqSum(_)
SeqSum(s) == IF s = <<>> THEN 0 ELSE Head(s) + SeqSum(Tail(s))

Min(a, b) == IF a <= b THEN a ELSE b

\* The positions of the cached bus rows that pass both filters of the pass.
BusSelected ==
    { i \in DOMAIN bus_cache.df :
        /\ bus_cache.df[i].year \in selected_years
        /\ bus_cache.df[i].origin_yishuv_nm = selected_origin }

\* The trips_count column of the cached bus table, 0 outside the selection.
BusSelectedTrips ==
    [i \in DOMAIN bus_cache.df |->
        IF i \in BusSelected THEN bus_cache.df[i].trips_count ELSE 0]

BusGrouped == pc \in {"nodata", "top15", "rendered"}

\* The positions of the cached train rows the status filter lets through.
StatusSelected ==
    { i \in DOMAIN train_cache.df :
        /\ train_cache.df[i].shana = year_filter
        /\ train_cache.df[i].train_station_nm \in station_filter
        /\ month_range[1] <= train_cache.df[i].hodesh
        /\ train_cache.df[i].hodesh <= month_range[2] }

StatusSelectedCounts ==
    [i \in DOMAIN train_cache.df |->
        IF i \in StatusSelected THEN train_cache.df[i].status_count ELSE 0]

\* The positions of the cached train rows of the chosen station and years.
RidershipChosen ==
    { i \in DOMAIN train_cache.df :
        /\ selected_city \in {AllStations, train_cache.df[i].train_station_nm}
        /\ year_range[1] <= train_cache.df[i].shana
        /\ train_cache.df[i].shana <= year_range[2] }

\* A row dated September 2024 or earlier.
NotLate(r) == r.shana * 12 + r.hodesh <= 2024 * 12 + 9

\* ... and of those, the rows the ridership pipeline keeps.
RidershipSelected == { i \in RidershipChosen : NotLate(train_cache.df[i]) }

RidershipSelectedCounts ==
    [i \in DOMAIN train_cache.df |->
        IF i \in RidershipSelected THEN train_cache.df[i].status_count ELSE 0]

RidershipGrouped == pc \in {"series", "plotted"}

\* C1: every group-and-sum step preserves the total of its measure and
\* yields exactly one row per distinct key tuple of its filtered input
\* (bus routes by origin / destination / coordinates, station status by
\* station and status, ridership by year and month).
C1_MassPreserved ==
    /\ BusGrouped =>
        /\ SeqSum([j \in DOMAIN df_city_grouped |-> df_city_grouped[j].trips_count])
              = SeqSum(BusSelectedTrips)
        /\ \A i \in BusSelected :
              Cardinality({ j \in DOMAIN df_city_grouped :
                  BusKey(df_city_grouped[j]) = BusKey(bus_cache.df[i]) }) = 1
        /\ \A j \in DOMAIN df_city_grouped : \E i \in BusSelected :
              BusKey(df_city_grouped[j]) = BusKey(bus_cache.df[i])
    /\ pc = "charted" =>
        /\ SeqSum([j \in DOMAIN grouped_data |-> grouped_data[j].status_count])
              = SeqSum(StatusSelectedCounts)
        /\ \A i \in StatusSelected :
              Cardinality({ j \in DOMAIN grouped_data :
                  StatusKey(grouped_data[j]) = StatusKey(train_cache.df[i]) }) = 1
        /\ \A j \in DOMAIN grouped_data : \E i \in StatusSelected :
              StatusKey(grouped_data[j]) = StatusKey(train_cache.df[i])
    /\ RidershipGrouped =>
        /\ SeqSum([j \in DOMAIN trips_per_month |-> trips_per_month[j].status_count])
              = SeqSum(RidershipSelectedCounts)
        /\ \A i \in RidershipSelected :
              Cardinality({ j \in DOMAIN trips_per_month :
                  PeriodKey(trips_per_month[j]) = PeriodKey(train_cache.df[i]) }) = 1
        /\ \A j \in DOMAIN trips_per_month : \E i \in RidershipSelected :
              PeriodKey(trips_per_month[j]) = PeriodKey(train_cache.df[i])

\* C1 witness: a bus pass that merged several source rows into fewer
\* routes, more than one route, with a positive total.
C1_Witness ==
    /\ pc = "top15"
    /\ Len(df_city_grouped) >= 2
    /\ Cardinality(BusSelected) > Len(df_city_grouped)
    /\ Cardinality(BusSelected) < Len(bus_cache.df)
    /\ SeqSum(BusSelectedTrips) > 0

\* The grouped routes that the top-routes selection left out.
LeftOut ==
    { j \in DOMAIN df_city_grouped :
        \A k \in DOMAIN df_top15 : BusKey(df_top15[k]) # BusKey(df_city_grouped[j]) }

\* C2: the top-routes selection returns exactly min(15, len(T)) rows of
\* the aggregated table T, in non-increasing order of summed trip count,
\* and no row left out has a strictly larger count than a row kept.
C2_TopRoutes ==
    BusGrouped =>
        /\ Len(df_top15) = Min(15, Len(df_city_grouped))
        /\ \A k \in DOMAIN df_top15 : \E j \in DOMAIN df_city_grouped :
              /\ BusKey(df_top15[k]) = BusKey(df_city_grouped[j])
              /\ df_top15[k].trips_count = df_city_grouped[j].trips_count
        /\ \A k, l \in DOMAIN df_top15 :
              BusKey(df_top15[k]) = BusKey(df_top15[l]) => k = l
        /\ \A k \in 1..(Len(df_top15) - 1) :
              df_top15[k].trips_count >= df_top15[k + 1].trips_count
        /\ \A j \in LeftOut, k \in DOMAIN df_top15 :
              df_city_grouped[j].trips_count <= df_top15[k].trips_count

\* C2 witness: more than 15 aggregated routes, of which a route with fewer
\* trips than every kept one was left out, the kept ones not all equal.
C2_Witness ==
    /\ pc = "top15"
    /\ Len(df_city_grouped) > 15
    /\ Len(df_top15) = 15
    /\ df_top15[1].trips_count > df_top15[15].trips_count
    /\ \E j \in LeftOut :
          df_city_grouped[j].trips_count < df_top15[15].trips_count

\* Position in the cached table of the first source row of a route.
FirstRow(route) ==
    CHOOSE i \in BusSelected :
        /\ BusKey(bus_cache.df[i]) = BusKey(route)
        /\ \A k \in BusSelected :
              BusKey(bus_cache.df[k]) = BusKey(route) => i <= k

\* C3 as stated: routes with equal summed trip counts are ordered by the
\* position of their first source row in the input table, and of a tie
\* across the 15-row cutoff the routes that come first in that order are
\* the ones kept.
C3_TiesByInputOrder ==
    pc = "top15" =>
        /\ \A k, l \in DOMAIN df_top15 :
              (k < l /\ df_top15[k].trips_count = df_top15[l].trips_count)
                  => FirstRow(df_top15[k]) < FirstRow(df_top15[l])
        /\ \A j \in LeftOut, k \in DOMAIN df_top15 :
              df_city_grouped[j].trips_count = df_top15[k].trips_count
                  => FirstRow(df_top15[k]) < FirstRow(df_city_grouped[j])

\* C3 as amended: routes with equal summed trip counts are ordered by
\* ascending group key (origin, destination, coordinates), the row order of
\* the grouped table, and of a tie across the 15-row cutoff the routes with
\* the smaller keys are the ones kept.
C3_TiesByGroupKey ==
    BusGrouped =>
        /\ \A k, l \in DOMAIN df_top15 :
              (k < l /\ df_top15[k].trips_count = df_top15[l].trips_count)
                  => LexLess(BusKey(df_top15[k]), BusKey(df_top15[l]))
        /\ \A j \in LeftOut, k \in DOMAIN df_top15 :
              df_city_grouped[j].trips_count = df_top15[k].trips_count
                  => LexLess(BusKey(df_top15[k]), BusKey(df_city_grouped[j]))

\* C3 witness: a tie across the cutoff in which the route left out has its
\* first source row before the first source row of a tied route kept.
C3_Witness ==
    /\ pc = "top15"
    /\ Len(df_top15) = 15
    /\ \E j \in LeftOut, k \in DOMAIN df_top15 :
          /\ df_city_grouped[j].trips_count = df_top15[k].trips_count
          /\ FirstRow(df_city_grouped[j]) < FirstRow(df_top15[k])

\* Largest summed trip count of the top routes (0 if there are none).
TopMax ==
    IF df_top15 = <<>> THEN 0
    ELSE CHOOSE m \in 0..SeqSum([k \in DOMAIN df_top15 |-> df_top15[k].trips_count]) :
            /\ \E k \in DOMAIN df_top15 : df_top15[k].trips_count = m
            /\ \A k \in DOMAIN df_top15 : df_top15[k].trips_count <= m

\* C4: when the largest summed trip count of a non-empty top-routes result
\* is positive, every normalized_width is a number in [0, 6] and every row
\* with the largest count has normalized_width exactly 6.
C4_WidthRange ==
    (pc = "rendered" /\ TopMax > 0) =>
        \A k \in DOMAIN df_top15 :
            LET w == df_top15[k].normalized_width
            IN  /\ ~w.nan
                /\ w.den > 0
                /\ 0 <= w.num
                /\ w.num <= 6 * w.den
                /\ df_top15[k].trips_count = TopMax => w.num = 6 * w.den

\* C4 witness: a rendered result with a row of width 6 and a row of width
\* strictly between 0 and 6.
C4_Witness ==
    /\ pc = "rendered"
    /\ TopMax > 0
    /\ \E k \in DOMAIN df_top15 :
          /\ 0 < df_top15[k].normalized_width.num
          /\ df_top15[k].normalized_width.num < 6 * df_top15[k].normalized_width.den
    /\ \E k \in DOMAIN df_top15 :
          df_top15[k].normalized_width.num = 6 * df_top15[k].normalized_width.den

\* C5: when the top-routes result is non-empty and its largest summed trip
\* count is 0, every row gets normalized_width = 0 and nothing is divided
\* by zero.
C5_ZeroWidths ==
    (pc = "rendered" /\ TopMax = 0) =>
        \A k \in DOMAIN df_top15 :
            /\ ~df_top15[k].normalized_width.nan
            /\ df_top15[k].normalized_width.num = 0

---------------------------------------------------------------------------
(* Properties of the two train views *)

PeriodTotal(S, p) ==
    SeqSum([i \in DOMAIN train_cache.df |->
        IF i \in S /\ PeriodKey(train_cache.df[i]) = PeriodKey(p)
           THEN train_cache.df[i].status_count ELSE 0])

\* The series has exactly one point per (year, month) of the rows at the
\* positions in S, no other point, and every point sums exactly those rows.
SeriesOf(S) ==
    /\ \A i \in S :
          Cardinality({ j \in DOMAIN trips_per_month :
              PeriodKey(trips_per_month[j]) = PeriodKey(train_cache.df[i]) }) = 1
    /\ \A j \in DOMAIN trips_per_month :
          /\ \E i \in S : PeriodKey(train_cache.df[i]) = PeriodKey(trips_per_month[j])
          /\ trips_per_month[j].status_count = PeriodTotal(S, trips_per_month[j])

\* C7 as stated: the series has exactly one point per (year, month) with a
\* table row of the chosen station ("All": any) and lo <= year <= hi, no
\* other point, and each point sums exactly those rows.
C7_SeriesOfChosenRows == RidershipGrouped => SeriesOf(RidershipChosen)

\* C7 as amended: the same, over the table rows dated September 2024 or
\* earlier only.
C7_SeriesOfRowsToCutoff == RidershipGrouped => SeriesOf(RidershipSelected)

\* C7 witness: a series of a single station with a point that sums two
\* rows, from a table that also holds a row of another station and a row of
\* the chosen station and years dated after September 2024.
C7_Witness ==
    /\ RidershipGrouped
    /\ selected_city # AllStations
    /\ RidershipChosen # RidershipSelected
    /\ \E i \in DOMAIN train_cache.df :
          train_cache.df[i].train_station_nm # selected_city
    /\ Cardinality(RidershipSelected) > Len(trips_per_month)
    /\ Len(trips_per_month) >= 1

\* C8: the points of a series carry the sequence indexes 0..k-1 in order,
\* (year, month) strictly increases along the index, and no two points
\* share a period key.
C8_SeriesOrder ==
    RidershipGrouped =>
        /\ \A j \in DOMAIN trips_per_month : trips_per_month[j].index = j - 1
        /\ \A j, k \in DOMAIN trips_per_month :
              trips_per_month[j].index < trips_per_month[k].index =>
                  \/ trips_per_month[j].shana < trips_per_month[k].shana
                  \/ /\ trips_per_month[j].shana = trips_per_month[k].shana
                     /\ trips_per_month[j].hodesh < trips_per_month[k].hodesh
        /\ \A j, k \in DOMAIN trips_per_month :
              trips_per_month[j].year_month = trips_per_month[k].year_month => j = k

\* C8 witness: a series of three or more points from a table whose rows are
\* not in date order.
C8_Witness ==
    /\ RidershipGrouped
    /\ Len(trips_per_month) >= 3
    /\ \E i, k \in RidershipSelected :
          /\ i < k
          /\ LexLess(PeriodKey(train_cache.df[k]), PeriodKey(train_cache.df[i]))

\* C9: each of the four events is annotated if and only if the series has
\* a point with the event's period key; the annotation then sits at that
\* point's sequence index and summed count, and an event without a point is
\* left out (the pass still ends with its plot).
C9_EventAnnotations ==
    pc = "plotted" =>
        /\ Len(annotation_mapping) = 4
        /\ \A e \in DOMAIN annotation_mapping :
              LET pts  == { j \in DOMAIN trips_per_month :
                              trips_per_month[j].year_month = annotation_mapping[e].date }
                  anns == { a \in DOMAIN annotations :
                              annotations[a].text = annotation_mapping[e].text }
              IN  /\ (anns # {}) <=> (pts # {})
                  /\ Cardinality(anns) <= 1
                  /\ \A a \in anns, j \in pts :
                        /\ annotations[a].x = trips_per_month[j].index
                        /\ annotations[a].y = trips_per_month[j].status_count
        /\ \A a \in DOMAIN annotations : \E e \in DOMAIN annotation_mapping :
              annotations[a].text = annotation_mapping[e].text

\* C9 witness: a plot with an annotation that is not at the first point and
\* with an event left out.
C9_Witness ==
    /\ pc = "plotted"
    /\ \E a \in DOMAIN annotations : annotations[a].x > 0 /\ annotations[a].y > 0
    /\ Len(annotations) < 4
    /\ Len(trips_per_month) > Len(annotations)

\* Sum of the status_count of the selected rows with the key of the row g.
StatusTotal(g) ==
    SeqSum([i \in DOMAIN train_cache.df |->
        IF i \in StatusSelected /\ StatusKey(train_cache.df[i]) = StatusKey(g)
           THEN train_cache.df[i].status_count ELSE 0])

\* C10: a status query with a year and a non-empty station set aggregates
\* exactly the rows that satisfy all three predicates (year equal, station
\* in the set, lo <= month <= hi); when no row does, also because the
\* stations do not occur in the table, the result is empty and the pass
\* ends with its chart, never in an error.
C10_StatusQuery ==
    /\ pc = "charted" =>
        /\ \A j \in DOMAIN grouped_data :
              /\ \E i \in StatusSelected :
                    StatusKey(train_cache.df[i]) = StatusKey(grouped_data[j])
              /\ grouped_data[j].status_count = StatusTotal(grouped_data[j])
        /\ \A i \in StatusSelected : \E j \in DOMAIN grouped_data :
              StatusKey(train_cache.df[i]) = StatusKey(grouped_data[j])
        /\ StatusSelected = {} => grouped_data = <<>>
    /\ pc \in {"info", "stopped"} /\ graph_option = "Train Status Analysis"
          => (year_filter = NoYear \/ station_filter = {})

\* C10 witness: a charted pass for stations that do not occur in the table,
\* whose year and months do, with an empty result.
C10_Witness ==
    /\ pc = "charted"
    /\ grouped_data = <<>>
    /\ station_filter # {}
    /\ \A i \in DOMAIN train_cache.df :
          train_cache.df[i].train_station_nm \notin station_filter
    /\ \E i \in DOMAIN train_cache.df :
          /\ train_cache.df[i].shana = year_filter
          /\ month_range[1] <= train_cache.df[i].hodesh
          /\ train_cache.df[i].hodesh <= month_range[2]

---------------------------------------------------------------------------
(* Frame and control properties *)

BusColumns ==
    { "year", "origin_yishuv_nm", "destination_yishuv_nm", "lat_origin",
      "lon_origin", "lat_dest", "lon_dest", "trips_count" }
TrainColumns ==
    { "shana", "hodesh", "train_station_nm", "station_status_nm", "status_count" }

\* No step of a pass changes a table once it is loaded.
LoadedTablesKept ==
    /\ bus_cache.loaded => bus_cache' = bus_cache
    /\ train_cache.loaded => train_cache' = train_cache

\* The loaded tables have the columns of their files and no derived column.
LoadedColumns ==
    /\ \A i \in DOMAIN bus_cache.df : DOMAIN bus_cache.df[i] = BusColumns
    /\ \A i \in DOMAIN train_cache.df : DOMAIN train_cache.df[i] = TrainColumns

\* C11: no pass of any view changes the cached raw tables: once loaded, the
\* bus table and the train table keep their rows and their columns through
\* every step of every pass (normalized_width and year_month are columns of
\* derived tables only).
C11_RawTablesReadOnly == [][LoadedTablesKept]_vars /\ []LoadedColumns

\* C11 witness: a finished ridership pass over a table with a row after
\* the cutoff, whose series carries the year_month column.
C11_Witness ==
    /\ pc = "plotted"
    /\ trips_per_month # <<>>
    /\ "year_month" \in DOMAIN trips_per_month[1]
    /\ \E i \in DOMAIN train_cache.df : ~NotLate(train_cache.df[i])

\* The top-routes result is empty exactly in the no-data state; a result
\* that reached the normalization or the map has rows, and after the
\* normalization every row has its normalized_width.
EmptyMeansNoData ==
    /\ pc = "nodata" => df_top15 = <<>>
    /\ pc \in {"top15", "rendered"} => df_top15 # <<>>
    /\ pc = "rendered" =>
          \A k \in DOMAIN df_top15 : "normalized_width" \in DOMAIN df_top15[k]
    /\ pc \in {"nodata", "top15"} =>
          \A k \in DOMAIN df_top15 : "normalized_width" \notin DOMAIN df_top15[k]

\* The no-data state ends the pass: the next step is the start of a new one.
NoDataEndsPass ==
    pc = "nodata" => pc' \in {"filtered", "stopped"} /\ df_top15' = <<>>

\* C12: in the bus pass an empty top-routes result ends the pass in the
\* no-data state before the normalization: normalized_width is never
\* computed and no map is rendered for an empty result.
C12_EmptyResultStops == []EmptyMeansNoData /\ [][NoDataEndsPass]_vars

\* C12 witness: a pass over a table with rows, with a year selected, that
\* ended in the no-data state.
C12_Witness ==
    /\ pc = "nodata"
    /\ selected_years # {}
    /\ bus_cache.df # <<>>
    /\ df_city_grouped = <<>>

\* C13: no series point is later than (2024, 9): the rows of October 2024
\* or later are removed before the station and year-range filters (the
\* station options already come from the remaining rows), whatever the
\* station choice and the year range.
C13_NothingAfterCutoff ==
    /\ RidershipGrouped =>
          \A j \in DOMAIN trips_per_month :
              \/ trips_per_month[j].shana < 2024
              \/ trips_per_month[j].shana = 2024 /\ trips_per_month[j].hodesh <= 9
    /\ pc \in {"chosen", "series", "plotted"} =>
          /\ Len(station_options) >= 1
          /\ station_options[1] = AllStations
          /\ \A k \in 2..Len(station_options) : \E i \in DOMAIN train_cache.df :
                /\ train_cache.df[i].train_station_nm = station_options[k]
                /\ \/ train_cache.df[i].shana < 2024
                   \/ train_cache.df[i].shana = 2024 /\ train_cache.df[i].hodesh <= 9

\* C13 witness: a non-empty series from a table with a row of October 2024
\* that is inside the year range and of a station that no earlier row has.
C13_Witness ==
    /\ RidershipGrouped
    /\ trips_per_month # <<>>
    /\ \E i \in RidershipChosen :
          /\ train_cache.df[i].shana = 2024
          /\ train_cache.df[i].hodesh > 9
          /\ \A k \in DOMAIN station_options :
                station_options[k] # train_cache.df[i].train_station_nm

\* The selection is one the two bus widgets offer: at least one year, all
\* of them years of the table, and an origin city of a row of those years.
OfferedSelection ==
    /\ selected_years # {}
    /\ \A y \in selected_years : \E i \in DOMAIN bus_cache.df : bus_cache.df[i].year = y
    /\ \E i \in DOMAIN bus_cache.df :
          /\ bus_cache.df[i].year \in selected_years
          /\ bus_cache.df[i].origin_yishuv_nm = selected_origin

\* C14: in the bus pass a selection of at least one year of the table and
\* of an origin city of the year-filtered rows gives a top-routes result of
\* 1 to 15 rows and never the "No data available" state; with no year
\* selected the pass halts before any filtering or aggregation.
C14_OfferedSelectionHasData ==
    graph_option = "Bus Routes Connectivity" =>
        /\ (BusGrouped /\ OfferedSelection) =>
              /\ pc # "nodata"
              /\ 1 <= Len(df_top15)
              /\ Len(df_top15) <= 15
        /\ pc \in {"filtered", "nodata", "top15", "rendered"} => selected_years # {}
        /\ (pc # "idle" /\ selected_years = {}) =>
              /\ pc = "stopped"
              /\ df_city_grouped = <<>>
              /\ df_top15 = <<>>

\* C14 witness: a rendered pass for an offered selection that keeps one
\* route of a table in which the year filter and the origin filter each
\* reject a row.
C14_Witness ==
    /\ pc = "rendered"
    /\ OfferedSelection
    /\ Len(df_top15) = 1
    /\ \E i \in DOMAIN bus_cache.df : bus_cache.df[i].year \notin selected_years
    /\ \E i \in DOMAIN bus_cache.df :
          /\ bus_cache.df[i].year \in selected_years
          /\ bus_cache.df[i].origin_yishuv_nm # selected_origin

=============================================================================
